---- MODULE Spec2Model ----
(***************************************************************************)
(* Model of scripts/extract-asgs.py: the geometry-to-viewport pipeline     *)
(* (simplify_geometry, project_to_svg, extract_polygon_coords,             *)
(* process_geometry, extract_metadata) as main() drives it.                *)
(*                                                                         *)
(* Coordinates are fixed point: a coordinate is held as an integer number  *)
(* of 1/Scale degrees, a viewport coordinate as an integer number of       *)
(* 1/10^Precision viewport units (the precision round(.., 2) keeps).       *)
(***************************************************************************)
EXTENDS Integers, Sequences, FiniteSets, TLC

VARIABLES level, columns, gdf, idx, features, trace, pc, metadata, arg, ret

vars == <<level, columns, gdf, idx, features, trace, pc, metadata, arg, ret>>

(***************************************************************************)
(* Bounds of the model.                                                    *)
(***************************************************************************)
\* coordinates are multiples of 1/Scale degree
Scale == 2
\* degrees outside the bounding box that the projected points may lie
Margin == 1
\* rows of a batch of regions of every kind of geometry
MaxRows == 2
\* rows of a batch of regions of every kind of attribute row
MaxAttrRows == 2
\* rows of a long batch of plain regions
MaxLongRows == 8
\* parts of a MultiPolygon handed to extract_polygon_coords
MaxParts == 3

(***************************************************************************)
(* Program constants.                                                      *)
(***************************************************************************)
minLon == 113
maxLon == 154
minLat == -44
maxLat == -10
SVG_WIDTH == 1000
SVG_HEIGHT == 760
\* round(x, 2)
Precision == 2

Pow10(n) == IF n = 0 THEN 1 ELSE IF n = 1 THEN 10 ELSE IF n = 2 THEN 100 ELSE 1000

Abs(n) == IF n < 0 THEN -n ELSE n

(***************************************************************************)
(* round(n / d, Precision) of Python 3 on the exact quotient, as a number  *)
(* of 1/10^Precision units: to nearest, ties to even.  d > 0.              *)
(***************************************************************************)
Round(n, d) ==
    LET m == n * Pow10(Precision)
        q == m \div d
        r == m % d
    IN  IF 2 * r < d THEN q
        ELSE IF 2 * r > d THEN q + 1
        ELSE IF q % 2 = 0 THEN q ELSE q + 1

\* project_to_svg without the flip of the Y axis
ProjectToSvgNoFlip(lon, lat) ==
    LET dLon == (maxLon - minLon) * Scale
        dLat == (maxLat - minLat) * Scale
        x == Round((lon - minLon * Scale) * SVG_WIDTH, dLon)
        y == Round((lat - minLat * Scale) * SVG_HEIGHT, dLat)
    IN  <<x, y>>

(***************************************************************************)
(* project_to_svg(lon, lat), lon and lat in 1/Scale degrees.               *)
(*   x = (lon - minLon) / (maxLon - minLon) * SVG_WIDTH                    *)
(*   y = (1 - (lat - minLat) / (maxLat - minLat)) * SVG_HEIGHT             *)
(***************************************************************************)
ProjectToSvg(lon, lat) ==
    LET dLon == (maxLon - minLon) * Scale
        dLat == (maxLat - minLat) * Scale
        x == Round((lon - minLon * Scale) * SVG_WIDTH, dLon)
        y == Round((dLat - (lat - minLat * Scale)) * SVG_HEIGHT, dLat)
    IN  <<x, y>>

(***************************************************************************)
(* Geometries.  A coordinate is <<lon, lat>> or, for a geometry with Z     *)
(* values, <<lon, lat, z>>.  A ring is a sequence of coordinates, closed   *)
(* as shapely keeps it (last = first).  A polygon is an exterior ring and  *)
(* its interior rings (holes).  A geometry is a record                     *)
(*   [type, parts, line]                                                   *)
(* type "None" (row.geometry is None), "Polygon" (at most one part),       *)
(* "MultiPolygon" (geoms = parts) or another type (its coordinates in      *)
(* line).                                                                  *)
(***************************************************************************)
Pt(lonDeg, latDeg) == <<lonDeg * Scale, latDeg * Scale>>

PtZ(lonDeg, latDeg, z) == <<lonDeg * Scale, latDeg * Scale, z>>

Poly(ext, holes) == [exterior |-> ext, interiors |-> holes]

NoneGeom == [type |-> "None", parts |-> <<>>, line |-> <<>>]

Polygon(ext, holes) ==
    [type |-> "Polygon", parts |-> <<Poly(ext, holes)>>, line |-> <<>>]

EmptyPolygon == Polygon(<<>>, <<>>)

MultiPolygon(ps) == [type |-> "MultiPolygon", parts |-> ps, line |-> <<>>]

LineString(cs) == [type |-> "LineString", parts |-> <<>>, line |-> cs]

\* geom.is_empty
IsEmpty(geom) ==
    IF geom.type \in {"Polygon", "MultiPolygon"}
    THEN \A i \in 1..Len(geom.parts) : geom.parts[i].exterior = <<>>
    ELSE geom.line = <<>>

RECURSIVE Shoelace(_, _)
Shoelace(ring, i) ==
    IF i >= Len(ring) THEN 0
    ELSE ring[i][1] * ring[i + 1][2] - ring[i + 1][1] * ring[i][2]
         + Shoelace(ring, i + 1)

\* twice the planar area a ring encloses
RingArea(ring) == Abs(Shoelace(ring, 1))

RECURSIVE HolesArea(_, _)
HolesArea(holes, i) ==
    IF i > Len(holes) THEN 0 ELSE RingArea(holes[i]) + HolesArea(holes, i + 1)

\* p.area of a shapely Polygon (twice it): the exterior less the holes
PolygonArea(p) == RingArea(p.exterior) - HolesArea(p.interiors, 1)

\* a maximum that keeps the last of the maximal elements
LargestLastOnTies(geoms) ==
    LET i == CHOOSE k \in 1..Len(geoms) :
                 /\ \A j \in 1..Len(geoms) : PolygonArea(geoms[j]) <= PolygonArea(geoms[k])
                 /\ \A j \in (k + 1)..Len(geoms) : PolygonArea(geoms[j]) < PolygonArea(geoms[k])
    IN  geoms[i]

\* max(geom.geoms, key=lambda p: p.area): the first of the maximal elements
Largest(geoms) ==
    LET i == CHOOSE k \in 1..Len(geoms) :
                 /\ \A j \in 1..Len(geoms) : PolygonArea(geoms[j]) <= PolygonArea(geoms[k])
                 /\ \A j \in 1..(k - 1) : PolygonArea(geoms[j]) < PolygonArea(geoms[k])
    IN  geoms[i]

(***************************************************************************)
(* extract_polygon_coords(geom)                                            *)
(***************************************************************************)
ExtractPolygonCoords(geom) ==
    IF geom.type = "Polygon" THEN geom.parts[1].exterior
    ELSE IF geom.type = "MultiPolygon" THEN Largest(geom.parts).exterior
    ELSE <<>>

(***************************************************************************)
(* geom.simplify(tolerance, preserve_topology=True).  Which vertices lie   *)
(* within the tolerance is left open: a ring is simplified to any of its   *)
(* subsequences that keeps the two end points and, as the topology         *)
(* preserving simplifier does, at least MinRingSize coordinates (all of    *)
(* them when the ring has fewer).                                          *)
(***************************************************************************)
MinRingSize == 4

Min(a, b) == IF a <= b THEN a ELSE b

Nth(K, i) == CHOOSE k \in K : Cardinality({j \in K : j < k}) = i - 1

SubRing(ring, K) == [i \in 1..Cardinality(K) |-> ring[Nth(K, i)]]

SimplifyRing(ring) ==
    LET n == Len(ring)
    IN  IF n = 0 THEN {ring}
        ELSE {SubRing(ring, K) : K \in {J \in SUBSET (1..n) :
                    /\ 1 \in J
                    /\ n \in J
                    /\ Cardinality(J) >= Min(n, MinRingSize)}}

\* the sequences that take their k-th element from the k-th of the sets
RECURSIVE Product(_)
Product(sets) ==
    IF sets = <<>> THEN {<<>>}
    ELSE {<<h>> \o t : h \in Head(sets), t \in Product(Tail(sets))}

SimplifyRings(rings) == Product([i \in 1..Len(rings) |-> SimplifyRing(rings[i])])

SimplifyPolygon(p) ==
    {Poly(e, hs) : e \in SimplifyRing(p.exterior), hs \in SimplifyRings(p.interiors)}

Simplify(geom) ==
    {[type |-> geom.type, parts |-> ps, line |-> geom.line] :
        ps \in Product([i \in 1..Len(geom.parts) |-> SimplifyPolygon(geom.parts[i])])}

(***************************************************************************)
(* simplify_geometry(geom): a result of geom.simplify, or geom itself when *)
(* geom.simplify raises.                                                   *)
(***************************************************************************)
SimplifyGeometry(geom) == Simplify(geom) \cup {geom}

(***************************************************************************)
(* Attribute rows.  The GeoDataFrame has the columns `columns`; a row      *)
(* holds a value for every column of the frame: a string, or a missing     *)
(* value (None).  row.get(key, default) is the default exactly when the    *)
(* frame has no such column.                                               *)
(***************************************************************************)
Null == [isnull |-> TRUE, s |-> ""]

S(x) == [isnull |-> FALSE, s |-> x]

\* str(v)
Str(v) == IF v.isnull THEN "None" ELSE v.s

\* bool(v) of a string or None
Truthy(v) == ~v.isnull /\ v.s # ""

Levels == {"SA3", "SA4"}

AllColumns == {"SA3_CODE_2021", "SA4_CODE_2021", "SA3_NAME_2021", "SA4_NAME_2021",
               "STE_CODE_2021", "code", "name", "state"}

Get(row, key, default) == IF key \in columns THEN row.attrs[key] ELSE default

\* the lookup of the code with the generic column tried first
LookupCodeGenericFirst(row, i) ==
    Str(Get(row, "code", Get(row, level \o "_CODE_2021", S("UNKNOWN_" \o ToString(i)))))

\* code = str(row.get(f"{level}_CODE_2021", row.get("code", f"UNKNOWN_{idx}")))
LookupCode(row, i) ==
    Str(Get(row, level \o "_CODE_2021", Get(row, "code", S("UNKNOWN_" \o ToString(i)))))

\* name = str(row.get(f"{level}_NAME_2021", row.get("name", code)))
LookupName(row, code) ==
    Str(Get(row, level \o "_NAME_2021", Get(row, "name", S(code))))

\* state = str(row.get("STE_CODE_2021", row.get("state", "UNKNOWN")))
LookupState(row) ==
    Str(Get(row, "STE_CODE_2021", Get(row, "state", S("UNKNOWN"))))

\* the lookup of the parent code without the test of the level
LookupParentAnyLevel(row) == S(Str(Get(row, "SA4_CODE_2021", S(""))))

\* parent_sa4 = str(row.get("SA4_CODE_2021", "")) if level == "SA3" else None
LookupParent(row) ==
    IF level = "SA3" THEN S(Str(Get(row, "SA4_CODE_2021", S("")))) ELSE Null

\* no test of the length of the ring
NoLengthCheck(coords) == FALSE

\* len(coords) < 3
TooShort(coords) == Len(coords) < 3

\* svg_coords = [project_to_svg(lon, lat) for lon, lat in coords]
Unpackable(coords) == \A k \in 1..Len(coords) : Len(coords[k]) = 2

SvgCoords(coords) == [k \in 1..Len(coords) |-> ProjectToSvg(coords[k][1], coords[k][2])]

\* the dict process_geometry appends for a row at index i whose ring is coords
Feature(row, i, coords) ==
    LET code == LookupCode(row, i)
        parent_sa4 == LookupParent(row)
    IN  [code      |-> code,
         name      |-> LookupName(row, code),
         state     |-> LookupState(row),
         parentSa4 |-> IF Truthy(parent_sa4) THEN parent_sa4 ELSE Null,
         polygon   |-> SvgCoords(coords)]

\* the feature put at the head of the list
PrependFeature(fs, f) == <<f>> \o fs

\* features.append(f)
AppendFeature(fs, f) == Append(fs, f)

\* geom is None or geom.is_empty
NoGeometry(geom) == geom.type = "None" \/ IsEmpty(geom)

\* the metadata record without the test that the feature has a parent code
MetaAlwaysParent(f, lvl) ==
    LET meta == [code |-> f.code, name |-> f.name, state |-> f.state]
    IN  IF lvl = "SA3" THEN meta @@ [parentSa4 |-> f.parentSa4.s] ELSE meta

(***************************************************************************)
(* extract_metadata(features, level)                                       *)
(***************************************************************************)
Meta(f, lvl) ==
    LET meta == [code |-> f.code, name |-> f.name, state |-> f.state]
    IN  IF lvl = "SA3" /\ Truthy(f.parentSa4)
        THEN meta @@ [parentSa4 |-> f.parentSa4.s]
        ELSE meta

ExtractMetadata(fs, lvl) == [k \in 1..Len(fs) |-> Meta(fs[k], lvl)]

(***************************************************************************)
(* Inputs.                                                                 *)
(***************************************************************************)
Rect(lon, lat, w, h) ==
    <<Pt(lon, lat), Pt(lon + w, lat), Pt(lon + w, lat + h), Pt(lon, lat + h), Pt(lon, lat)>>

Tri == <<Pt(115, -40), Pt(125, -40), Pt(125, -30), Pt(115, -40)>>

Tri2 == <<Pt(130, -40), Pt(140, -40), Pt(140, -30), Pt(130, -40)>>

TriZ == <<PtZ(115, -40, 7), PtZ(125, -40, 7), PtZ(125, -30, 7), PtZ(115, -40, 7)>>

Sq == Rect(115, -40, 10, 10)

SqHole == Rect(116, -39, 8, 8)

\* rings of exactly two distinct vertices, written with 3 and with 4 coordinates
Deg3 == <<Pt(130, -20), Pt(140, -20), Pt(130, -20)>>

Deg4 == <<Pt(130, -20), Pt(140, -20), Pt(140, -20), Pt(130, -20)>>

R5 == Rect(120, -20, 5, 1)

R20 == Rect(130, -25, 5, 4)

R3 == Rect(140, -15, 3, 1)

R5b == Rect(145, -35, 1, 5)

FullAttrs ==
    [c \in AllColumns |->
        CASE c = "SA3_CODE_2021" -> S("30101")
          [] c = "SA4_CODE_2021" -> S("301")
          [] c = "SA3_NAME_2021" -> S("Capalaba")
          [] c = "SA4_NAME_2021" -> S("Brisbane - East")
          [] c = "STE_CODE_2021" -> S("3")
          [] c = "code" -> S("c1")
          [] c = "name" -> S("n1")
          [] OTHER -> S("QLD")]

BlankAttrs == [c \in AllColumns |-> S("")]

NullAttrs == [c \in AllColumns |-> Null]

Row(geom, attrs) == [geometry |-> geom, attrs |-> attrs]

Geometries ==
    {NoneGeom, EmptyPolygon, LineString(<<Pt(115, -40), Pt(125, -30)>>),
     Polygon(Tri, <<>>), Polygon(Sq, <<>>), Polygon(Deg3, <<>>), Polygon(Deg4, <<>>),
     Polygon(TriZ, <<>>),
     MultiPolygon(<<Poly(Sq, <<SqHole>>), Poly(Tri2, <<>>)>>),
     MultiPolygon(<<Poly(R5, <<>>), Poly(R20, <<>>), Poly(R3, <<>>)>>)}

SeqsUpTo(X, n) == UNION {[1..k -> X] : k \in 0..n}

\* batches of every kind of geometry
GeomInputs ==
    {[level |-> l, columns |-> cs, gdf |-> rows] :
        l \in Levels, cs \in {AllColumns, {}},
        rows \in SeqsUpTo({Row(g, FullAttrs) : g \in Geometries}, MaxRows)}

\* batches of every kind of attribute row, under every set of columns
AttrInputs ==
    {[level |-> l, columns |-> cs, gdf |-> rows] :
        l \in Levels, cs \in SUBSET AllColumns,
        rows \in SeqsUpTo({Row(Polygon(Tri, <<>>), a) : a \in {FullAttrs, BlankAttrs, NullAttrs}},
                          MaxAttrRows)}

\* long batches
LongInputs ==
    {[level |-> l, columns |-> cs, gdf |-> rows] :
        l \in Levels, cs \in {{}, {"name", "state"}},
        rows \in SeqsUpTo({Row(g, FullAttrs) : g \in {NoneGeom, Polygon(Tri, <<>>)}},
                          MaxLongRows)}

Inputs == GeomInputs \cup AttrInputs \cup LongInputs

Polygons ==
    {Poly(R5, <<>>), Poly(R20, <<>>), Poly(R3, <<>>), Poly(R5b, <<>>),
     Poly(Sq, <<SqHole>>), Poly(Tri2, <<>>)}

RingInputs ==
    {MultiPolygon(ps) : ps \in UNION {[1..k -> Polygons] : k \in 1..MaxParts}}
    \cup {Polygon(p.exterior, p.interiors) : p \in Polygons}
    \cup {EmptyPolygon, LineString(<<Pt(115, -40), Pt(125, -30)>>),
          LineString(Tri), LineString(<<>>)}

PointInputs ==
    ((minLon - Margin) * Scale .. (maxLon + Margin) * Scale)
    \X ((minLat - Margin) * Scale .. (maxLat + Margin) * Scale)

(***************************************************************************)
(* main(): process_geometry(gdf, level), then extract_metadata(features,   *)
(* level).  idx is the index of the row the loop of process_geometry is    *)
(* at; trace records, for every row the loop has been through, the ring    *)
(* extract_polygon_coords gave (coords) and what became of the row.        *)
(***************************************************************************)
Init ==
    \E inp \in Inputs :
        /\ level = inp.level
        /\ columns = inp.columns
        /\ gdf = inp.gdf
        /\ idx = 0
        /\ features = <<>>
        /\ trace = <<>>
        /\ pc = "loop"
        /\ metadata = <<>>
        /\ arg = <<>>
        /\ ret = <<>>

Visit(outcome, coords) ==
    trace' = Append(trace, [idx |-> idx, outcome |-> outcome, coords |-> coords])

\* one iteration of the loop of process_geometry
ProcessGeometryRow ==
    /\ pc = "loop"
    /\ idx < Len(gdf)
    /\ LET row == gdf[idx + 1]
       IN  IF NoGeometry(row.geometry)
           THEN /\ Visit("empty", <<>>)
                /\ idx' = idx + 1
                /\ UNCHANGED <<features, pc>>
           ELSE \E geom \in SimplifyGeometry(row.geometry) :
                    LET coords == ExtractPolygonCoords(geom)
                    IN  IF TooShort(coords)
                        THEN /\ Visit("short", coords)
                             /\ idx' = idx + 1
                             /\ UNCHANGED <<features, pc>>
                        ELSE IF ~Unpackable(coords)
                        THEN /\ Visit("raised", coords)
                             /\ pc' = "raised"
                             /\ UNCHANGED <<features, idx>>
                        ELSE /\ Visit("emitted", coords)
                             /\ features' = AppendFeature(features, Feature(row, idx, coords))
                             /\ idx' = idx + 1
                             /\ UNCHANGED pc
    /\ UNCHANGED <<level, columns, gdf, metadata, arg, ret>>

\* return features
ProcessGeometryReturn ==
    /\ pc = "loop"
    /\ idx = Len(gdf)
    /\ pc' = "done"
    /\ UNCHANGED <<level, columns, gdf, idx, features, trace, metadata, arg, ret>>

\* metadata = extract_metadata(features, level)
CallExtractMetadata ==
    /\ pc = "done"
    /\ metadata' = ExtractMetadata(features, level)
    /\ pc' = "meta"
    /\ UNCHANGED <<level, columns, gdf, idx, features, trace, arg, ret>>

Next == ProcessGeometryRow \/ ProcessGeometryReturn \/ CallExtractMetadata

Spec == Init /\ [][Next]_vars

(***************************************************************************)
(* project_to_svg on its own, on every point of the grid.                  *)
(***************************************************************************)
Idle ==
    /\ level = "SA4"
    /\ columns = {}
    /\ gdf = <<>>
    /\ idx = 0
    /\ features = <<>>
    /\ trace = <<>>
    /\ metadata = <<>>

InitProject ==
    /\ Idle
    /\ pc = "call"
    /\ arg \in PointInputs
    /\ ret = <<>>

CallProjectToSvg ==
    /\ pc = "call"
    /\ ret' = ProjectToSvg(arg[1], arg[2])
    /\ pc' = "returned"
    /\ UNCHANGED <<level, columns, gdf, idx, features, trace, metadata, arg>>

SpecProject == InitProject /\ [][CallProjectToSvg]_vars

(***************************************************************************)
(* extract_polygon_coords on its own, on the geometries of RingInputs.     *)
(***************************************************************************)
InitRing ==
    /\ Idle
    /\ pc = "call"
    /\ arg \in RingInputs
    /\ ret = <<>>

CallExtractPolygonCoords ==
    /\ pc = "call"
    /\ ret' = ExtractPolygonCoords(arg)
    /\ pc' = "returned"
    /\ UNCHANGED <<level, columns, gdf, idx, features, trace, metadata, arg>>

SpecRing == InitRing /\ [][CallExtractPolygonCoords]_vars

(***************************************************************************)
(* Properties.                                                             *)
(***************************************************************************)
IsEmitted(t) == t.outcome = "emitted"

\* the rows the loop has emitted a feature for, in the order it visited them
Emitted == SelectSeq(trace, IsEmitted)

RowOf(t) == gdf[t.idx + 1]

Returned == pc \in {"done", "meta"}

Distinct(ring) == {ring[k] : k \in 1..Len(ring)}

\* C1: process_geometry never raises because of a single region: the run
\* goes through every row and returns the features of the rows that have a
\* ring, whatever the other rows are.
C1_NeverRaises ==
    /\ pc # "raised"
    /\ Returned =>
          /\ Len(trace) = Len(gdf)
          /\ Len(features) = Len(Emitted)
          /\ \A k \in 1..Len(features) :
                features[k] = Feature(RowOf(Emitted[k]), Emitted[k].idx, Emitted[k].coords)

\* C2: every feature of the list has a polygon of at least 3 points, the
\* projection of the ring selected for its row, and a row whose selected
\* ring has fewer than 3 points has no feature.
C2_PolygonAtLeast3 ==
    /\ Len(features) = Len(Emitted)
    /\ \A k \in 1..Len(features) :
          /\ Len(features[k].polygon) >= 3
          /\ Len(features[k].polygon) = Len(Emitted[k].coords)
    /\ \A k \in 1..Len(trace) : Len(trace[k].coords) < 3 => ~IsEmitted(trace[k])

C2_Witness ==
    /\ Returned
    /\ features # <<>>
    /\ \E k \in 1..Len(trace) :
          /\ trace[k].outcome = "short"
          /\ ~NoGeometry(RowOf(trace[k]).geometry)

\* C3: a region whose Polygon ring has exactly 2 distinct vertices yields no
\* feature, however many coordinates write the ring.
C3_DegenerateSkipped ==
    \A k \in 1..Len(trace) :
        LET g == RowOf(trace[k]).geometry
        IN  (g.type = "Polygon" /\ Cardinality(Distinct(g.parts[1].exterior)) = 2)
                => ~IsEmitted(trace[k])

\* C4: the features are at most as many as the regions, each is the feature
\* of one region, no region has two, they are in the order of their regions,
\* and of a returned list the only regions missing are those without a
\* geometry and those whose ring has fewer than 3 points.
C4_BatchContract ==
    /\ Len(features) <= Len(gdf)
    /\ Len(features) = Len(Emitted)
    /\ \A k \in 1..Len(trace) : trace[k].idx = k - 1
    /\ \A k \in 1..Len(features) :
          features[k] = Feature(RowOf(Emitted[k]), Emitted[k].idx, Emitted[k].coords)
    /\ Returned =>
          /\ Len(trace) = Len(gdf)
          /\ \A k \in 1..Len(trace) :
                \/ IsEmitted(trace[k])
                \/ NoGeometry(RowOf(trace[k]).geometry)
                \/ Len(trace[k].coords) < 3

C4_Witness ==
    /\ Returned
    /\ Len(features) >= 2
    /\ Len(features) < Len(gdf)
    /\ features[1] # features[2]
    /\ ~IsEmitted(trace[1])

\* C5: the code of a feature is the value of the level's column
\* <level>_CODE_2021 when the frame has it, else the value of the column
\* `code` when the frame has it, else UNKNOWN_<index of the row>: UNKNOWN_7
\* for the row at position 7.
C5_CodeFallback ==
    \A k \in 1..Len(features) :
        LET t == Emitted[k]
            f == features[k]
            lc == IF level = "SA3" THEN "SA3_CODE_2021" ELSE "SA4_CODE_2021"
        IN  /\ lc \in columns => f.code = Str(RowOf(t).attrs[lc])
            /\ (lc \notin columns /\ "code" \in columns) => f.code = Str(RowOf(t).attrs["code"])
            /\ (lc \notin columns /\ "code" \notin columns) =>
                  /\ f.code = "UNKNOWN_" \o ToString(t.idx)
                  /\ t.idx = 7 => f.code = "UNKNOWN_7"

C5_Witness ==
    /\ Returned
    /\ \E k \in 1..Len(features) : Emitted[k].idx = 7 /\ features[k].code = "UNKNOWN_7"

\* C6: the code, name and state of every feature are non-empty strings.
C6_NonEmptyStrings ==
    \A k \in 1..Len(features) :
        /\ features[k].code # ""
        /\ features[k].name # ""
        /\ features[k].state # ""

C10_MetadataProjection ==
    pc = "meta" =>
        /\ Len(metadata) = Len(features)
        /\ \A k \in 1..Len(features) :
              LET m == metadata[k]
                  f == features[k]
              IN  /\ DOMAIN m \subseteq {"code", "name", "state", "parentSa4"}
                  /\ {"code", "name", "state"} \subseteq DOMAIN m
                  /\ m.code = f.code /\ m.name = f.name /\ m.state = f.state
                  /\ "parentSa4" \in DOMAIN m <=> f.parentSa4 # Null
                  /\ "parentSa4" \in DOMAIN m => S(m.parentSa4) = f.parentSa4
        /\ Len(features) = Len(Emitted)
        /\ \A k \in 1..Len(features) :
              features[k] = Feature(RowOf(Emitted[k]), Emitted[k].idx, Emitted[k].coords)

C10_Witness ==
    /\ pc = "meta"
    /\ Len(metadata) >= 2
    /\ \E k \in 1..Len(metadata) : "parentSa4" \in DOMAIN metadata[k]
    /\ \E k \in 1..Len(metadata) : "parentSa4" \notin DOMAIN metadata[k]

Perms(n) == {q \in [1..n -> 1..n] : \A i, j \in 1..n : q[i] = q[j] => i = j}

Permuted(ps, q) == [i \in 1..Len(ps) |-> ps[q[i]]]

DistinctAreas(ps) ==
    \A i, j \in 1..Len(ps) : PolygonArea(ps[i]) = PolygonArea(ps[j]) => i = j

\* C7, as claimed: on a MultiPolygon extract_polygon_coords returns the
\* exterior ring of the first of the parts whose exterior ring encloses the
\* maximum area.
C7_LargestExteriorRing ==
    (pc = "returned" /\ arg.type = "MultiPolygon") =>
        \E i \in 1..Len(arg.parts) :
            /\ ret = arg.parts[i].exterior
            /\ \A j \in 1..Len(arg.parts) :
                  RingArea(arg.parts[j].exterior) <= RingArea(arg.parts[i].exterior)
            /\ \A j \in 1..(i - 1) :
                  RingArea(arg.parts[j].exterior) < RingArea(arg.parts[i].exterior)

\* C7, amended: on a MultiPolygon extract_polygon_coords returns the
\* exterior ring of the first of the parts of maximum polygon area (the area
\* of the exterior ring less the areas of the holes), the same ring for
\* every permutation of parts of distinct areas (the ring of area 20 for
\* parts of areas 5, 20 and 3); on a Polygon it returns the exterior ring,
\* on any other geometry an empty ring.
C7_LargestPolygon ==
    pc = "returned" =>
        /\ arg.type = "Polygon" => ret = arg.parts[1].exterior
        /\ arg.type \notin {"Polygon", "MultiPolygon"} => ret = <<>>
        /\ arg.type = "MultiPolygon" =>
              /\ \E i \in 1..Len(arg.parts) :
                    /\ ret = arg.parts[i].exterior
                    /\ \A j \in 1..Len(arg.parts) :
                          PolygonArea(arg.parts[j]) <= PolygonArea(arg.parts[i])
                    /\ \A j \in 1..(i - 1) :
                          PolygonArea(arg.parts[j]) < PolygonArea(arg.parts[i])
              /\ DistinctAreas(arg.parts) =>
                    \A q \in Perms(Len(arg.parts)) :
                        ExtractPolygonCoords(MultiPolygon(Permuted(arg.parts, q))) = ret
              /\ {arg.parts[i] : i \in 1..Len(arg.parts)}
                    = {Poly(R5, <<>>), Poly(R20, <<>>), Poly(R3, <<>>)} => ret = R20

\* a part with a hole whose exterior ring is the largest, and not the part
\* returned; and parts that tie for the maximum
C7_Witness ==
    /\ pc = "returned"
    /\ arg.type = "MultiPolygon"
    /\ Len(arg.parts) = 3
    /\ arg.parts[1].interiors # <<>>
    /\ RingArea(arg.parts[1].exterior) > RingArea(ret)
    /\ arg.parts[2].exterior = ret
    /\ arg.parts[3] = arg.parts[2]

\* C8: a point of the bounding box (edges and corners included) projects to
\* 0 <= x <= SVG_WIDTH and 0 <= y <= SVG_HEIGHT, y decreasing as the latitude
\* increases, from SVG_HEIGHT at minLat to 0 at maxLat; (133.5, -27)
\* projects to (500.0, 380.0).
InBox(p) ==
    /\ minLon * Scale <= p[1] /\ p[1] <= maxLon * Scale
    /\ minLat * Scale <= p[2] /\ p[2] <= maxLat * Scale

C8_ProjectInViewport ==
    (pc = "returned" /\ InBox(arg)) =>
        /\ 0 <= ret[1] /\ ret[1] <= SVG_WIDTH * Pow10(Precision)
        /\ 0 <= ret[2] /\ ret[2] <= SVG_HEIGHT * Pow10(Precision)
        /\ arg[2] = minLat * Scale => ret[2] = SVG_HEIGHT * Pow10(Precision)
        /\ arg[2] = maxLat * Scale => ret[2] = 0
        /\ arg[1] = minLon * Scale => ret[1] = 0
        /\ arg[1] = maxLon * Scale => ret[1] = SVG_WIDTH * Pow10(Precision)
        /\ \A lat \in (minLat * Scale)..(maxLat * Scale) :
              lat > arg[2] => ProjectToSvg(arg[1], lat)[2] < ret[2]
        /\ (2 * arg[1] = 267 * Scale /\ arg[2] = -27 * Scale) => ret = <<50000, 38000>>

C8_Witness ==
    /\ pc = "returned"
    /\ 2 * arg[1] = 267 * Scale
    /\ arg[2] = -27 * Scale
    /\ ret = <<50000, 38000>>

====
